---- MODULE Spec2Model ----
(***************************************************************************)
(* Verification model of termux-notification-list-mcp.                     *)
(*                                                                         *)
(*   - the change-detection monitor (src/app/notification-monitor.ts):     *)
(*     startMonitoring / stopMonitoring / pollForNotifications /           *)
(*     findNewNotifications, with the fetch of every poll and the          *)
(*     reschedule timer of every poll as separate steps, so that every     *)
(*     interleaving of calls, fetch completions and timer firings is a     *)
(*     behaviour of the model;                                             *)
(*   - the tool surface and the session tables of the HTTP server          *)
(*     (src/app/streamable-http.ts);                                       *)
(*   - the authentication middleware (src/app/streamable-http.ts and       *)
(*     src/app/sse.ts), as a function of configuration and request.        *)
(***************************************************************************)
EXTENDS Integers, Sequences, FiniteSets, TLC

(***************************************************************************)
(* Bounds of the model.                                                    *)
(***************************************************************************)
\* longest snapshot the snapshot source returns
MaxLen == 2
\* most poll chains (outstanding poll fetches + pending poll timers) alive
MaxChains == 2

\* longest snapshot polled in the specification with sessions
MaxSessionLen == 1
\* most deferred stops of waitForNotification pending at once
MaxTimeouts == 1
\* most poll chains alive at once under the HTTP server
MaxSessionChains == 1
\* largest limit argument of getCurrentNotifications explored
MaxLimit == 3

Keys == {"k1", "k2"}
Contents == {"a", "b"}

\* the native package of a notification instance
PackageOf(k) == IF k = "k1" THEN "com.example.app" ELSE "com.other.app"

\* NotificationSchema: key is the identity, packageName is used by the
\* package filter, content stands for the remaining fields (id, tag, group,
\* title, content, when), which the monitor never inspects.  The content
\* of k1 varies, so that a known key can come back with other fields changed.
Notifications ==
  { n \in [key : Keys, packageName : {PackageOf(k) : k \in Keys}, content : Contents] :
      /\ n.packageName = PackageOf(n.key)
      /\ n.key = "k1" \/ n.content = "a" }

RECURSIVE SeqsUpTo(_, _)
SeqsUpTo(S, n) ==
  IF n = 0 THEN { <<>> }
  ELSE LET shorter == SeqsUpTo(S, n - 1)
       IN  shorter \cup { Append(s, x) : s \in { t \in shorter : Len(t) = n - 1 }, x \in S }

\* the snapshots the snapshot source can return
Snapshots == SeqsUpTo(Notifications, MaxLen)

\* the snapshots polled while sessions come and go: what the tool surface
\* and the transports do with an event never depends on the notification in it
SessionSnapshots ==
  SeqsUpTo({ n \in Notifications : n.key = "k1" /\ n.content = "a" }, MaxSessionLen)

\* the session identifiers randomUUID() can generate
SessionIds == {"s1", "s2"}

\* the timeout arguments of waitForNotification: <<>> when not supplied,
\* <<n>> for a supplied number of seconds
Timeouts == { <<>> } \cup { <<n>> : n \in (0 - 1)..2 }

\* null timer handle
NoTimer == 0
TimerIds == 1..MaxChains

VARIABLES
  isMonitoring,            \* NotificationMonitor.isMonitoring
  lastKnownNotifications,  \* NotificationMonitor.lastKnownNotifications
  pollInterval,            \* NotificationMonitor.pollInterval (a handle or NoTimer)
  timers,                  \* pending setTimeout(() => pollForNotifications()) handles
  fetches,                 \* polls suspended at `await getCurrentNotifications()`
  emitted,                 \* events the monitor emitted in the last step
  cleanupCalls,            \* cleanupMonitoring() invocations made by the last step
  transports,              \* keys of the `transports` table (Streamable HTTP sessions)
  oldTransports,           \* keys of the `oldTransports` table (legacy SSE sessions)
  sseHandlers,             \* sessions whose notificationHandler is registered on the monitor
  serverTransport,         \* the transport the shared McpServer is connected to
  issued,                  \* session identifiers generated so far
  timeoutHandles,          \* pending deferred stopMonitoring() timers of waitForNotification
  authConfig,              \* bearerToken, basicUser, basicPass the server was created with
  authRequest,             \* the last request the authenticate middleware saw
  authResponse,            \* what the middleware did with it: next() or a 401 response
  http,                    \* the last request to /mcp, /sse or /messages and its status
  delivery,                \* what the listeners did with the events of the last step
  exited,                  \* the process was terminated by an unhandled promise rejection
  child,                   \* the child process of a getCurrentNotifications() call and its promise
  last                     \* the last operation and what it found (history)

monitorVars == <<isMonitoring, lastKnownNotifications, pollInterval, timers, fetches>>
sessionVars == <<transports, oldTransports, sseHandlers, serverTransport, issued>>
authVars == <<authConfig, authRequest, authResponse>>
serverVars == <<transports, oldTransports, sseHandlers, serverTransport, issued, timeoutHandles,
                authConfig, authRequest, authResponse, http, child>>
vars == <<isMonitoring, lastKnownNotifications, pollInterval, timers, fetches, emitted,
          cleanupCalls, transports, oldTransports, sseHandlers, serverTransport, issued,
          timeoutHandles, authConfig, authRequest, authResponse, http, delivery, exited,
          child, last>>

\* poll chains alive: outstanding poll fetches and pending reschedule timers
Chains == fetches + Cardinality(timers)

NewNotificationEvent(n) == [type |-> "newNotification", notification |-> n]
ErrorEvent == [type |-> "error"]

KeysOf(snapshot) == { snapshot[i].key : i \in DOMAIN snapshot }

\* a findNewNotifications that compares whole records instead of keys
findNewNotificationsByValue(currentNotifications, lastKnown) ==
  LET lastKnownRecords == { lastKnown[i] : i \in DOMAIN lastKnown }
      isNew(notification) == notification \notin lastKnownRecords
  IN  SelectSeq(currentNotifications, isNew)

\* a findNewNotifications that takes the first snapshot as a silent baseline
findNewNotificationsAfterBaseline(currentNotifications, lastKnown) ==
  LET lastKnownKeys == { lastKnown[i].key : i \in DOMAIN lastKnown }
      isNew(notification) == lastKnown # <<>> /\ notification.key \notin lastKnownKeys
  IN  SelectSeq(currentNotifications, isNew)

\* findNewNotifications: the records of the fetched snapshot whose key is
\* not among the keys of lastKnownNotifications, in snapshot order.
findNewNotifications(currentNotifications, lastKnown) ==
  LET lastKnownKeys == { lastKnown[i].key : i \in DOMAIN lastKnown }
      isNew(notification) == notification.key \notin lastKnownKeys
  IN  SelectSeq(currentNotifications, isNew)

\* an emit loop that walks the new notifications from the last to the first
EmitAllReversed(newNotifications) ==
  [ i \in DOMAIN newNotifications |->
      NewNotificationEvent(newNotifications[Len(newNotifications) + 1 - i]) ]

\* the for-loop of pollForNotifications: one emit per new notification
EmitAll(newNotifications) ==
  [ i \in DOMAIN newNotifications |-> NewNotificationEvent(newNotifications[i]) ]

\* the handle setTimeout returns: a handle that is not pending
FreshTimer == CHOOSE t \in TimerIds : t \notin timers /\ \A u \in TimerIds : u < t => u \in timers

(***************************************************************************)
(* NotificationMonitor (src/app/notification-monitor.ts)                   *)
(***************************************************************************)

\* cleanupMonitoring(): the hook stopMonitoring calls.  The only subclass
\* body (TermuxNotificationMonitor) finds monitorProcess null, which nothing
\* ever assigns, so the invocation itself is all there is to record.
cleanupMonitoring == cleanupCalls' = 1

\* pollForNotifications up to its await: returns at once when not
\* monitoring, otherwise calls getCurrentNotifications() and suspends.
pollForNotificationsBegin(monitoring) ==
  fetches' = IF monitoring THEN fetches + 1 ELSE fetches

\* the tail of pollForNotifications: schedule the next poll if monitoring
scheduleNextPoll ==
  IF isMonitoring
    THEN /\ pollInterval' = FreshTimer
         /\ timers' = timers \cup {FreshTimer}
    ELSE UNCHANGED <<pollInterval, timers>>

\* a try branch that takes an empty snapshot for no answer and keeps the
\* snapshot it knew
lastKnownKeptOnEmpty(currentNotifications, lastKnown) ==
  IF currentNotifications = <<>> THEN lastKnown ELSE currentNotifications

\* lastKnownNotifications after the try branch of pollForNotifications
lastKnownAfterSuccess(currentNotifications, lastKnown) == currentNotifications

\* a catch branch that forgets the snapshot it knew
lastKnownCleared(lastKnown) == <<>>

\* lastKnownNotifications after the catch branch of pollForNotifications
lastKnownAfterFailure(lastKnown) == lastKnown

\* startMonitoring()
startMonitoring ==
  IF isMonitoring
    THEN UNCHANGED monitorVars
    ELSE /\ isMonitoring' = TRUE
         /\ pollForNotificationsBegin(TRUE)
         /\ UNCHANGED <<lastKnownNotifications, pollInterval, timers>>

\* stopMonitoring()
stopMonitoring ==
  /\ isMonitoring' = FALSE
  /\ cleanupMonitoring
  /\ IF pollInterval # NoTimer
       THEN /\ timers' = timers \ {pollInterval}
            /\ pollInterval' = NoTimer
       ELSE UNCHANGED <<timers, pollInterval>>
  /\ UNCHANGED <<lastKnownNotifications, fetches>>

NoSession == "none"
\* no event, no push: pushes[i][s] counts the push messages session s got
\* for the i-th emitted event, broken are the sessions whose channel fails,
\* rejections the rejected promises nobody handles
NoDelivery == [pushes |-> <<>>, broken |-> {}, rejections |-> 0]
NoTransport == "none"

\* no stop of the monitor by its caller is on record
NoCycle == [known |-> <<>>, restarted |-> FALSE]

\* What a step records about the state it started from: op names the step,
\* called the monitor method it invoked ("start", "stop" or "none"),
\* prevStart whether the step before it invoked startMonitoring, fetched the
\* snapshot a poll or a tool received, result the tool result it returned,
\* registered the session tables and the subscribed SSE handlers, fetchOk
\* whether the snapshot source answered the tool that asked it,
\* intervalBefore the handle pollInterval held when a query began.
\* cycle holds the snapshot known when a caller stopped the monitor and
\* whether a caller restarted it since, where the callers keep that on
\* record, closing the cycle a successful poll found.
\* ownTimeout says, where the initial history asks for it, whether a
\* waitForNotification call scheduled a deferred stop since monitoring last
\* became active; the deferred stop that fires leaves it as it found it.
\* successes says, where the initial history asks for it, whether the last
\* successful poll was the first one or a later one.
Record(op, called, session, fetched, result) ==
  [ op            |-> op,
    prevStart     |-> (last.called = "start"),
    called        |-> called,
    session       |-> session,
    fetched       |-> fetched,
    result        |-> result,
    wasMonitoring |-> isMonitoring,
    fetchOk       |-> TRUE,
    intervalBefore |-> NoTimer,
    registered    |-> [mcp |-> transports, sse |-> oldTransports,
                       handlers |-> sseHandlers],
    prevKnown     |-> lastKnownNotifications,
    fetchesBefore |-> fetches,
    timersBefore  |-> timers,
    everStarted   |-> (last.everStarted \/ (called = "start")),
    startedBy     |-> IF called = "start" /\ ~isMonitoring THEN session
                      ELSE last.startedBy,
    failedKnown   |-> IF op = "pollOk" THEN <<>>
                      ELSE IF op = "pollFail" THEN <<lastKnownNotifications>>
                      ELSE last.failedKnown,
    afterFail     |-> IF op = "pollOk" THEN last.failedKnown ELSE <<>>,
    cycle         |-> IF op \in {"pollOk", "pollFail"} /\ last.cycle.restarted
                        THEN NoCycle
                      ELSE last.cycle,
    closing       |-> IF op = "pollOk" THEN last.cycle ELSE NoCycle,
    ownTimeout    |-> IF last.ownTimeout = <<>> \/ op = "timeout" THEN last.ownTimeout
                      ELSE IF called = "stop" THEN <<FALSE>>
                      ELSE last.ownTimeout,
    successes     |-> IF last.successes = <<>> \/ op # "pollOk" THEN last.successes
                      ELSE IF last.successes = <<"none">> THEN <<"first">>
                      ELSE <<"later">> ]

NoResult == [isError |-> FALSE, text |-> "none"]

\* a caller invokes monitor.startMonitoring(); a call that would start a
\* poll chain beyond MaxChains is left out of the model
StartMonitoring ==
  /\ isMonitoring \/ Chains < MaxChains
  /\ startMonitoring
  /\ emitted' = <<>>
  /\ delivery' = NoDelivery
  /\ UNCHANGED exited
  /\ cleanupCalls' = 0
  /\ last' = Record("start", "start", NoSession, <<>>, NoResult)
  /\ UNCHANGED serverVars

\* a caller invokes monitor.stopMonitoring()
StopMonitoring ==
  /\ stopMonitoring
  /\ emitted' = <<>>
  /\ delivery' = NoDelivery
  /\ UNCHANGED exited
  /\ last' = Record("stop", "stop", NoSession, <<>>, NoResult)
  /\ UNCHANGED serverVars

\* a pending poll timer fires: () => this.pollForNotifications()
TimerFires(t) ==
  /\ ~exited
  /\ t \in timers
  /\ timers' = timers \ {t}
  /\ pollForNotificationsBegin(isMonitoring)
  /\ emitted' = <<>>
  /\ delivery' = NoDelivery
  /\ UNCHANGED exited
  /\ cleanupCalls' = 0
  /\ last' = Record("timer", "none", NoSession, <<>>, NoResult)
  /\ UNCHANGED <<isMonitoring, lastKnownNotifications, pollInterval>>
  /\ UNCHANGED serverVars

\* the fetch of a suspended poll resolves with a snapshot: try branch
pollSucceeds(currentNotifications) ==
  /\ fetches > 0
  /\ fetches' = fetches - 1
  /\ emitted' = EmitAll(findNewNotifications(currentNotifications, lastKnownNotifications))
  /\ lastKnownNotifications' = lastKnownAfterSuccess(currentNotifications, lastKnownNotifications)
  /\ scheduleNextPoll
  /\ cleanupCalls' = 0
  /\ last' = Record("pollOk", "none", NoSession, currentNotifications, NoResult)
  /\ UNCHANGED isMonitoring

\* a poll of a monitor nobody but its caller listens to
PollSucceeds(currentNotifications) ==
  /\ pollSucceeds(currentNotifications)
  /\ UNCHANGED <<delivery, exited>>
  /\ UNCHANGED serverVars

\* a catch branch that returns without scheduling the next poll
pollFailsAndStalls ==
  /\ fetches > 0
  /\ fetches' = fetches - 1
  /\ emitted' = <<ErrorEvent>>
  /\ lastKnownNotifications' = lastKnownAfterFailure(lastKnownNotifications)
  /\ UNCHANGED <<pollInterval, timers>>
  /\ cleanupCalls' = 0
  /\ last' = Record("pollFail", "none", NoSession, <<>>, NoResult)
  /\ UNCHANGED isMonitoring

\* the fetch of a suspended poll rejects: catch branch
pollFails ==
  /\ fetches > 0
  /\ fetches' = fetches - 1
  /\ emitted' = <<ErrorEvent>>
  /\ lastKnownNotifications' = lastKnownAfterFailure(lastKnownNotifications)
  /\ scheduleNextPoll
  /\ cleanupCalls' = 0
  /\ last' = Record("pollFail", "none", NoSession, <<>>, NoResult)
  /\ UNCHANGED isMonitoring

PollFails ==
  /\ pollFails
  /\ UNCHANGED <<delivery, exited>>
  /\ UNCHANGED serverVars

\* a caller invokes monitor.getCurrentNotifications() and it settles
GetCurrentNotifications ==
  /\ emitted' = <<>>
  /\ delivery' = NoDelivery
  /\ UNCHANGED exited
  /\ cleanupCalls' = 0
  /\ last' = [Record("getCurrent", "none", NoSession, <<>>, NoResult)
                EXCEPT !.intervalBefore = pollInterval]
  /\ UNCHANGED monitorVars
  /\ UNCHANGED serverVars

\* a server created without credentials, before any request
NoAuthConfig == [bearerToken |-> <<>>, basicUser |-> <<>>, basicPass |-> <<>>]
NoRequest == [authorization |-> <<>>, queryToken |-> <<>>]
NoResponse == [status |-> 0, error |-> "none", wwwAuthenticate |-> FALSE]
NoHttp == [path |-> "none", sessionId |-> <<>>, initialize |-> FALSE, status |-> 0]

\* a promise nobody settled yet
PendingPromise == [status |-> "pending", value |-> <<>>, reason |-> "none"]

\* no getCurrentNotifications() call was made: stage is "none", "running"
\* once spawned and "closed" after the 'close' event; stdoutChunks are the
\* chunks the 'data' listener pushed; errored says the 'error' event fired;
\* settles counts the resolve and reject calls made on the promise; code is
\* the exit code the 'close' event carried
NoChild == [stage |-> "none", stdoutChunks |-> <<>>, errored |-> FALSE, code |-> <<>>,
            promise |-> PendingPromise, settles |-> 0]

\* the state after construction, with the history a specification starts from
Constructed(history) ==
  /\ isMonitoring = FALSE
  /\ lastKnownNotifications = <<>>
  /\ pollInterval = NoTimer
  /\ timers = {}
  /\ fetches = 0
  /\ emitted = <<>>
  /\ cleanupCalls = 0
  /\ transports = {}
  /\ oldTransports = {}
  /\ sseHandlers = {}
  /\ serverTransport = NoTransport
  /\ issued = {}
  /\ timeoutHandles = 0
  /\ authConfig = NoAuthConfig
  /\ authRequest = NoRequest
  /\ authResponse = NoResponse
  /\ http = NoHttp
  /\ child = NoChild
  /\ delivery = NoDelivery
  /\ exited = FALSE
  /\ last = history

\* nothing happened yet; the deferred stops are not on record
NoHistory ==
  [ op |-> "init", prevStart |-> FALSE, called |-> "none", session |-> NoSession,
    fetched |-> <<>>, result |-> NoResult, wasMonitoring |-> FALSE,
    fetchOk |-> TRUE, intervalBefore |-> NoTimer,
    registered |-> [mcp |-> {}, sse |-> {}, handlers |-> {}],
    prevKnown |-> <<>>, fetchesBefore |-> 0,
    timersBefore |-> {}, everStarted |-> FALSE, startedBy |-> NoSession,
    failedKnown |-> <<>>, afterFail |-> <<>>,
    cycle |-> NoCycle, closing |-> NoCycle, ownTimeout |-> <<>>,
    successes |-> <<>> ]

Init == Constructed(NoHistory)

\* the same state, with the deferred stops kept on record
InitTimed == Constructed([NoHistory EXCEPT !.ownTimeout = <<FALSE>>])

\* the same state, with the successful polls kept on record
InitCounted == Constructed([NoHistory EXCEPT !.successes = <<"none">>])

\* the monitor driven directly by its callers
NextMonitor ==
  \/ StartMonitoring
  \/ StopMonitoring
  \/ \E t \in TimerIds : TimerFires(t)
  \/ \E currentNotifications \in Snapshots : PollSucceeds(currentNotifications)
  \/ PollFails
  \/ GetCurrentNotifications

SpecMonitor == Init /\ [][NextMonitor]_vars

\* the monitor from its construction on, its successful polls on record
SpecLifetime == InitCounted /\ [][NextMonitor]_vars

\* the fetch of a suspended poll settles, one way or the other
PollCompletes ==
  \/ \E currentNotifications \in SessionSnapshots : PollSucceeds(currentNotifications)
  \/ PollFails

\* the monitor started and stopped by its callers, its timers and its polls
NextPolling ==
  \/ StartMonitoring
  \/ StopMonitoring
  \/ \E t \in TimerIds : TimerFires(t)
  \/ PollCompletes

\* the monitor in a process whose event loop runs: a pending poll timer
\* fires and an outstanding fetch settles
SpecPolling ==
  /\ Init
  /\ [][NextPolling]_vars
  /\ WF_vars(\E t \in TimerIds : TimerFires(t))
  /\ WF_vars(PollCompletes)

\* a caller invokes monitor.stopMonitoring() and the snapshot known at that
\* moment is kept on record
StopBeforeRestart ==
  /\ stopMonitoring
  /\ emitted' = <<>>
  /\ delivery' = NoDelivery
  /\ UNCHANGED exited
  /\ last' = [Record("stop", "stop", NoSession, <<>>, NoResult)
                EXCEPT !.cycle = [known |-> <<lastKnownNotifications>>,
                                  restarted |-> FALSE]]
  /\ UNCHANGED serverVars

\* a caller invokes monitor.startMonitoring(); a start of the stopped
\* monitor after a stop on record is a restart
StartAgain ==
  /\ isMonitoring \/ Chains < MaxChains
  /\ startMonitoring
  /\ emitted' = <<>>
  /\ delivery' = NoDelivery
  /\ UNCHANGED exited
  /\ cleanupCalls' = 0
  /\ last' = [Record("start", "start", NoSession, <<>>, NoResult)
                EXCEPT !.cycle = IF ~isMonitoring /\ last.cycle.known # <<>>
                                   THEN [last.cycle EXCEPT !.restarted = TRUE]
                                   ELSE last.cycle]
  /\ UNCHANGED serverVars

\* the monitor stopped and started again by its callers between polls
NextRestart ==
  \/ StartAgain
  \/ StopBeforeRestart
  \/ \E t \in TimerIds : TimerFires(t)
  \/ \E currentNotifications \in SessionSnapshots : PollSucceeds(currentNotifications)
  \/ PollFails

SpecRestart == Init /\ [][NextRestart]_vars

(***************************************************************************)
(* Tool surface and sessions (src/app/streamable-http.ts)                  *)
(***************************************************************************)

\* sessions with a registered transport, of either style
ActiveSessions == transports \cup oldTransports

\* the text of a waitForNotification confirmation announces an automatic stop
AnnouncesTimeout(timeout) == timeout # <<>> /\ timeout[1] # 0

\* waitForNotification schedules the deferred stopMonitoring()
SchedulesTimeout(timeout) == timeout # <<>> /\ timeout[1] # 0 /\ timeout[1] > 0

\* a waitForNotification that awaits the first poll it starts and reports
\* that poll's failure as its own
ToolWaitForNotificationAwaitingPoll(s, timeout) ==
  /\ isMonitoring \/ Chains < MaxChains
  /\ SchedulesTimeout(timeout) => timeoutHandles < MaxTimeouts
  /\ isMonitoring' = TRUE
  /\ UNCHANGED <<lastKnownNotifications, pollInterval, timers, fetches>>
  /\ timeoutHandles' = IF SchedulesTimeout(timeout) THEN timeoutHandles + 1 ELSE timeoutHandles
  /\ emitted' = <<>>
  /\ delivery' = NoDelivery
  /\ UNCHANGED exited
  /\ cleanupCalls' = 0
  /\ last' = Record("toolWait", "start", s, <<>>,
                    [isError |-> ~isMonitoring,
                     text |-> IF isMonitoring THEN "Started monitoring"
                              ELSE "Failed to start notification monitoring",
                     announcesStop |-> AnnouncesTimeout(timeout),
                     scheduledStop |-> SchedulesTimeout(timeout)])
  /\ UNCHANGED sessionVars

\* tool waitForNotification({ timeout }) called by session s; a call that
\* would start a poll chain beyond MaxChains is left out of the model
ToolWaitForNotification(s, timeout) ==
  /\ isMonitoring \/ Chains < MaxChains
  /\ SchedulesTimeout(timeout) => timeoutHandles < MaxTimeouts
  /\ startMonitoring
  /\ timeoutHandles' = IF SchedulesTimeout(timeout) THEN timeoutHandles + 1 ELSE timeoutHandles
  /\ emitted' = <<>>
  /\ delivery' = NoDelivery
  /\ UNCHANGED exited
  /\ cleanupCalls' = 0
  /\ last' = [Record("toolWait", "start", s, <<>>,
                     [isError |-> FALSE, text |-> "Started monitoring",
                      announcesStop |-> AnnouncesTimeout(timeout),
                      scheduledStop |-> SchedulesTimeout(timeout)])
                EXCEPT !.ownTimeout =
                         IF last.ownTimeout = <<>> THEN <<>>
                         ELSE <<SchedulesTimeout(timeout)
                                  \/ (isMonitoring /\ last.ownTimeout[1])>>]
  /\ UNCHANGED sessionVars

\* a stopWaitingForNotification that stops only the caller's own monitoring
ToolStopOwnMonitoring(s) ==
  /\ IF last.startedBy = s
       THEN stopMonitoring
       ELSE UNCHANGED monitorVars /\ cleanupCalls' = 0
  /\ emitted' = <<>>
  /\ delivery' = NoDelivery
  /\ UNCHANGED exited
  /\ last' = Record("toolStop", "stop", s, <<>>,
                    [isError |-> FALSE, text |-> "Stopped monitoring"])
  /\ UNCHANGED <<sessionVars, timeoutHandles>>

\* tool stopWaitingForNotification() called by session s
ToolStopWaitingForNotification(s) ==
  /\ stopMonitoring
  /\ emitted' = <<>>
  /\ delivery' = NoDelivery
  /\ UNCHANGED exited
  /\ last' = Record("toolStop", "stop", s, <<>>,
                    [isError |-> FALSE, text |-> "Stopped monitoring"])
  /\ UNCHANGED <<sessionVars, timeoutHandles>>

\* JavaScript truthiness of an optional argument that is a string name
NameGiven(optional) == optional # <<>> /\ optional[1] # ""

\* a filter that keeps the records of the other packages
filterByPackageInverted(notifications, packageName) ==
  LET differs(n) == n.packageName # packageName[1]
  IN  IF NameGiven(packageName) THEN SelectSeq(notifications, differs)
      ELSE notifications

\* if (packageName) notifications = notifications.filter(...)
filterByPackage(notifications, packageName) ==
  LET matches(n) == n.packageName = packageName[1]
  IN  IF NameGiven(packageName) THEN SelectSeq(notifications, matches)
      ELSE notifications

\* if (limit && limit > 0) notifications = notifications.slice(0, limit)
applyLimit(notifications, limit) ==
  IF limit # <<>> /\ limit[1] # 0 /\ limit[1] > 0
    THEN SubSeq(notifications, 1,
                IF limit[1] < Len(notifications) THEN limit[1] ELSE Len(notifications))
    ELSE notifications

\* what the snapshot source answers to monitor.getCurrentNotifications()
FetchFailed == [ok |-> FALSE, notifications |-> <<>>]
Fetched(notifications) == [ok |-> TRUE, notifications |-> notifications]

\* a handler whose catch branch answers like an empty snapshot
getCurrentNotificationsSwallowing(packageName, limit, fetched) ==
  [isError |-> FALSE, text |-> "Found",
   count |-> IF fetched.ok THEN Len(fetched.notifications) ELSE 0,
   notifications |-> IF fetched.ok THEN fetched.notifications ELSE <<>>,
   packageName |-> packageName, limit |-> limit]

\* a handler that truncates the snapshot before it filters
getCurrentNotificationsLimitFirst(packageName, limit, fetched) ==
  IF ~fetched.ok
    THEN [isError |-> TRUE, text |-> "Failed to get current notifications",
          count |-> 0, notifications |-> <<>>,
          packageName |-> packageName, limit |-> limit]
    ELSE LET notifications ==
               filterByPackage(applyLimit(fetched.notifications, limit), packageName)
         IN  [isError |-> FALSE, text |-> "Found",
              count |-> Len(notifications), notifications |-> notifications,
              packageName |-> packageName, limit |-> limit]

\* the result of the tool getCurrentNotifications({ packageName, limit }):
\* count is the number in the text "Found <count> notification(s)" and
\* notifications the array printed after it
getCurrentNotificationsResult(packageName, limit, fetched) ==
  IF ~fetched.ok
    THEN [isError |-> TRUE, text |-> "Failed to get current notifications",
          count |-> 0, notifications |-> <<>>,
          packageName |-> packageName, limit |-> limit]
    ELSE LET notifications ==
               applyLimit(filterByPackage(fetched.notifications, packageName), limit)
         IN  [isError |-> FALSE, text |-> "Found",
              count |-> Len(notifications), notifications |-> notifications,
              packageName |-> packageName, limit |-> limit]

\* a getCurrentNotifications tool that records the snapshot it read as the
\* monitor's last known one
ToolGetCurrentNotificationsRemembering(s, packageName, limit, fetched) ==
  /\ emitted' = <<>>
  /\ delivery' = NoDelivery
  /\ UNCHANGED exited
  /\ cleanupCalls' = 0
  /\ last' = [Record("toolGet", "none", s, fetched.notifications,
                     getCurrentNotificationsResult(packageName, limit, fetched))
                EXCEPT !.fetchOk = fetched.ok, !.intervalBefore = pollInterval]
  /\ UNCHANGED <<sessionVars, timeoutHandles>>
  /\ lastKnownNotifications' = IF fetched.ok THEN fetched.notifications
                               ELSE lastKnownNotifications
  /\ UNCHANGED <<isMonitoring, pollInterval, timers, fetches>>

\* tool getCurrentNotifications({ packageName, limit }) called by session s
ToolGetCurrentNotifications(s, packageName, limit, fetched) ==
  /\ emitted' = <<>>
  /\ delivery' = NoDelivery
  /\ UNCHANGED exited
  /\ cleanupCalls' = 0
  /\ last' = [Record("toolGet", "none", s, fetched.notifications,
                     getCurrentNotificationsResult(packageName, limit, fetched))
                EXCEPT !.fetchOk = fetched.ok, !.intervalBefore = pollInterval]
  /\ UNCHANGED <<sessionVars, timeoutHandles>>
  /\ UNCHANGED monitorVars

\* the deferred stop of a waitForNotification timeout fires
TimeoutFires ==
  /\ ~exited
  /\ timeoutHandles > 0
  /\ timeoutHandles' = timeoutHandles - 1
  /\ stopMonitoring
  /\ emitted' = <<>>
  /\ delivery' = NoDelivery
  /\ UNCHANGED exited
  /\ last' = Record("timeout", "stop", NoSession, <<>>, NoResult)
  /\ UNCHANGED sessionVars
  /\ UNCHANGED <<authVars, http, child>>

\* server.server.onclose: runs whenever a transport connected to the shared
\* McpServer closes (server.connect chains the transport's onclose to it)
serverOnClose ==
  /\ serverTransport' = NoTransport
  /\ stopMonitoring

\* a new Streamable HTTP transport is connected to the server and, on its
\* initialize request, registered under a fresh session identifier
InitializeMcp(s) ==
  /\ s \notin issued
  /\ issued' = issued \cup {s}
  /\ transports' = transports \cup {s}
  /\ serverTransport' = s
  /\ emitted' = <<>>
  /\ delivery' = NoDelivery
  /\ UNCHANGED exited
  /\ cleanupCalls' = 0
  /\ last' = Record("initMcp", "none", s, <<>>, NoResult)
  /\ UNCHANGED <<oldTransports, sseHandlers, timeoutHandles>>
  /\ UNCHANGED monitorVars

\* /sse: a legacy SSE transport is registered, its notificationHandler is
\* subscribed to the monitor and the transport is connected to the server
OpenSse(s) ==
  /\ s \notin issued
  /\ issued' = issued \cup {s}
  /\ oldTransports' = oldTransports \cup {s}
  /\ sseHandlers' = sseHandlers \cup {s}
  /\ serverTransport' = s
  /\ emitted' = <<>>
  /\ delivery' = NoDelivery
  /\ UNCHANGED exited
  /\ cleanupCalls' = 0
  /\ last' = Record("openSse", "none", s, <<>>, NoResult)
  /\ UNCHANGED <<transports, timeoutHandles>>
  /\ UNCHANGED monitorVars

\* a close that leaves the transport in the table
CloseMcpLeavingEntry(s) ==
  /\ serverOnClose
  /\ emitted' = <<>>
  /\ delivery' = NoDelivery
  /\ UNCHANGED exited
  /\ last' = Record("closeMcp", "stop", s, <<>>, NoResult)
  /\ UNCHANGED <<transports, oldTransports, sseHandlers, issued, timeoutHandles>>

\* DELETE /mcp closes the transport of a Streamable HTTP session: its
\* onclose removes it from the table, then the server's onclose runs
CloseMcp(s) ==
  /\ transports' = transports \ {s}
  /\ serverOnClose
  /\ emitted' = <<>>
  /\ delivery' = NoDelivery
  /\ UNCHANGED exited
  /\ last' = Record("closeMcp", "stop", s, <<>>, NoResult)
  /\ UNCHANGED <<oldTransports, sseHandlers, issued, timeoutHandles>>

\* a close of the response stream that leaves the handler subscribed
CloseSseLeavingHandler(s) ==
  /\ ~exited
  /\ s \in oldTransports
  /\ UNCHANGED sseHandlers
  /\ oldTransports' = oldTransports \ {s}
  /\ serverOnClose
  /\ emitted' = <<>>
  /\ delivery' = NoDelivery
  /\ UNCHANGED exited
  /\ last' = Record("closeSse", "stop", s, <<>>, NoResult)
  /\ UNCHANGED <<transports, issued, timeoutHandles>>
  /\ UNCHANGED <<authVars, http, child>>

\* the response stream of a legacy SSE session closes: the handler is
\* unsubscribed, the session removed, then the server's onclose runs
CloseSse(s) ==
  /\ ~exited
  /\ s \in oldTransports
  /\ sseHandlers' = sseHandlers \ {s}
  /\ oldTransports' = oldTransports \ {s}
  /\ serverOnClose
  /\ emitted' = <<>>
  /\ delivery' = NoDelivery
  /\ UNCHANGED exited
  /\ last' = Record("closeSse", "stop", s, <<>>, NoResult)
  /\ UNCHANGED <<transports, issued, timeoutHandles>>
  /\ UNCHANGED <<authVars, http, child>>

\* server.server.notification(...) of the McpServer's listeners: the message
\* goes to the transport the server is connected to
serverPush(s, broken) ==
  IF serverTransport = s /\ s \notin broken THEN 1 ELSE 0

\* the app's newNotification listener: transport.send(...) for every entry
\* of transports
broadcastPush(event, s, broken) ==
  IF event.type = "newNotification" /\ s \in transports /\ s \notin broken THEN 1 ELSE 0

\* notificationHandler of a /sse connection: res.write(...) while the
\* session is registered
ssePush(event, s, broken) ==
  IF event.type = "newNotification" /\ s \in sseHandlers /\ s \in oldTransports
       /\ s \notin broken
    THEN 1 ELSE 0

pushesOf(events, broken) ==
  [ i \in DOMAIN events |->
      [ s \in SessionIds |->
          serverPush(s, broken) + broadcastPush(events[i], s, broken)
            + ssePush(events[i], s, broken) ] ]

\* server.server.notification and transport.send are async functions whose
\* promises the listeners drop: a failure (no transport connected, a broken
\* channel) is a rejection outside every try block.  A failing res.write of
\* notificationHandler throws inside its try block.
rejectionsOf(events, broken) ==
  LET isNewEvent(e) == e.type = "newNotification"
      serverFails == IF serverTransport = NoTransport \/ serverTransport \in broken
                       THEN 1 ELSE 0
  IN  Len(events) * serverFails
        + Len(SelectSeq(events, isNewEvent)) * Cardinality(transports \cap broken)

\* the listeners run on emit; Node terminates the process on a rejection
\* that nobody handles
forward(events, broken) ==
  /\ delivery' = IF events = <<>> THEN NoDelivery
                 ELSE [pushes |-> pushesOf(events, broken), broken |-> broken,
                       rejections |-> rejectionsOf(events, broken)]
  /\ exited' = (rejectionsOf(events, broken) > 0)

\* the channels that fail during a poll: none or the one of a session
BrokenChoices == { {} } \cup { {s} : s \in SessionIds }

\* a poll of the server's monitor succeeds; the channels in broken fail
PollSucceedsForwarded(currentNotifications, broken) ==
  LET events == EmitAll(findNewNotifications(currentNotifications, lastKnownNotifications))
  IN  /\ ~exited
      /\ broken \subseteq ActiveSessions
      /\ events = <<>> => broken = {}
      /\ pollSucceeds(currentNotifications)
      /\ forward(events, broken)
      /\ UNCHANGED serverVars

\* a poll of the server's monitor fails; the channels in broken fail
PollFailsForwarded(broken) ==
  /\ ~exited
  /\ broken \subseteq ActiveSessions
  /\ pollFails
  /\ forward(<<ErrorEvent>>, broken)
  /\ UNCHANGED serverVars

(***************************************************************************)
(* Authentication middleware (src/app/streamable-http.ts, src/app/sse.ts)  *)
(*                                                                         *)
(* A string is the sequence of its code points; an optional string is <<>> *)
(* when undefined and <<string>> otherwise.  An Authorization header is    *)
(* [scheme, rest], standing for the text scheme + " " + rest; the rest of  *)
(* a Basic header is given as the bytes its base64 text decodes to.        *)
(***************************************************************************)

\* JavaScript truthiness of an optional string: defined and not empty
Truthy(optional) == optional # <<>> /\ optional[1] # <<>>

\* the code point of ':'
Colon == 58

\* UTF-8 bytes of a string of code points below 2048
RECURSIVE Utf8(_)
Utf8(string) ==
  IF string = <<>> THEN <<>>
  ELSE LET c == Head(string)
       IN  (IF c < 128 THEN <<c>> ELSE <<192 + (c \div 64), 128 + (c % 64)>>)
           \o Utf8(Tail(string))

\* Buffer.toString('ascii'): every byte with its high bit cleared
ToAscii(bytes) == [ i \in DOMAIN bytes |-> bytes[i] % 128 ]

\* String.prototype.split(':'): the segments between the colons
RECURSIVE Split(_)
Split(string) ==
  IF \A i \in DOMAIN string : string[i] # Colon THEN << string >>
  ELSE LET first == CHOOSE i \in DOMAIN string :
                      string[i] = Colon /\ \A j \in 1..(i - 1) : string[j] # Colon
       IN  << SubSeq(string, 1, first - 1) >>
           \o Split(SubSeq(string, first + 1, Len(string)))

\* const [username, password] = credentials.split(':')
Destructure(parts) ==
  [ username |-> <<parts[1]>>,
    password |-> IF Len(parts) >= 2 THEN <<parts[2]>> ELSE <<>> ]

\* the Authorization header a client builds for a user and a password
BasicHeader(user, pass) ==
  << [scheme |-> "Basic", rest |-> Utf8(user \o <<Colon>> \o pass)] >>

BearerHeader(token) == << [scheme |-> "Bearer", rest |-> token] >>

Admit == [status |-> 200, error |-> "none", wwwAuthenticate |-> FALSE]
Reject(message, challenge) ==
  [status |-> 401, error |-> message, wwwAuthenticate |-> challenge]

\* the Basic branch of authenticate
authenticateBasic(config, rest) ==
  IF ~Truthy(config.basicUser) \/ ~Truthy(config.basicPass)
    THEN Reject("Unauthorized: Basic authentication not configured", FALSE)
    ELSE LET credentials == Destructure(Split(ToAscii(rest)))
         IN  IF credentials.username # config.basicUser
                  \/ credentials.password # config.basicPass
               THEN Reject("Unauthorized: Invalid credentials", FALSE)
               ELSE Admit

\* a Bearer branch that admits any token once a token is configured
authenticateBearerAny(config, rest) ==
  IF ~Truthy(config.bearerToken)
    THEN Reject("Unauthorized: Bearer token authentication not configured", FALSE)
    ELSE Admit

\* the Bearer branch of authenticate
authenticateBearer(config, rest) ==
  IF ~Truthy(config.bearerToken)
    THEN Reject("Unauthorized: Bearer token authentication not configured", FALSE)
    ELSE IF <<rest>> # config.bearerToken
      THEN Reject("Unauthorized: Invalid token", FALSE)
      ELSE Admit

\* the query-parameter check of authenticate runs before the header checks
queryTokenDecides(config, request) ==
  Truthy(request.queryToken) /\ Truthy(config.bearerToken)

\* a skip test that also wants the basic password to be unset
noCredentialAtAll(config) ==
  /\ ~Truthy(config.bearerToken)
  /\ ~Truthy(config.basicUser)
  /\ ~Truthy(config.basicPass)

\* if (!bearerToken && !basicUser): authentication is skipped
noAuthConfigured(config) ==
  ~Truthy(config.bearerToken) /\ ~Truthy(config.basicUser)

\* authenticate(req, res, next)
authenticate(config, request) ==
  LET authHeader == request.authorization
      queryToken == request.queryToken
      hasHeader == authHeader # <<>>
  IN  IF noAuthConfigured(config) THEN Admit
      ELSE IF queryTokenDecides(config, request)
        THEN IF queryToken # config.bearerToken
               THEN Reject("Unauthorized: Invalid query token", FALSE)
               ELSE Admit
      ELSE IF ~hasHeader /\ ~Truthy(queryToken)
        THEN Reject("Unauthorized: Authentication required", TRUE)
      ELSE IF hasHeader /\ authHeader[1].scheme = "Bearer"
        THEN authenticateBearer(config, authHeader[1].rest)
      ELSE IF hasHeader /\ authHeader[1].scheme = "Basic"
        THEN authenticateBasic(config, authHeader[1].rest)
      ELSE Reject("Unauthorized: Unsupported authentication method", TRUE)

\* the strings of the configurations and requests explored: "t", "w",
\* "u", "v", "p", "q" and "p:q"
Tokens == { <<116>>, <<119>> }
Users == { <<117>>, <<118>> }
Passwords == { <<112>>, <<113>>, <<112, Colon, 113>> }

AuthConfigs ==
  { [bearerToken |-> b, basicUser |-> u, basicPass |-> p] :
      b \in { <<>>, << <<>> >>, << <<116>> >> },
      u \in { <<>>, << <<117>> >> },
      p \in { <<>>, << <<112>> >>, << <<112, Colon, 113>> >> } }

AuthHeaders ==
  { <<>> }
    \cup { BearerHeader(t) : t \in Tokens \cup { <<>> } }
    \cup { BasicHeader(u, p) : u \in Users, p \in Passwords }
    \cup { << [scheme |-> "Basic", rest |-> <<117>>] >>,
           << [scheme |-> "Digest", rest |-> <<116>>] >> }

AuthRequests ==
  { [authorization |-> h, queryToken |-> q] :
      h \in AuthHeaders,
      q \in { <<>>, << <<>> >> } \cup { <<t>> : t \in Tokens } }

\* a server is created with some configuration
InitAuth ==
  /\ isMonitoring = FALSE
  /\ lastKnownNotifications = <<>>
  /\ pollInterval = NoTimer
  /\ timers = {}
  /\ fetches = 0
  /\ emitted = <<>>
  /\ cleanupCalls = 0
  /\ transports = {}
  /\ oldTransports = {}
  /\ sseHandlers = {}
  /\ serverTransport = NoTransport
  /\ issued = {}
  /\ timeoutHandles = 0
  /\ authConfig \in AuthConfigs
  /\ authRequest = NoRequest
  /\ authResponse = NoResponse
  /\ http = NoHttp
  /\ child = NoChild
  /\ delivery = NoDelivery
  /\ exited = FALSE
  /\ last = [ op |-> "init", prevStart |-> FALSE, called |-> "none", session |-> NoSession,
              fetched |-> <<>>, result |-> NoResult, wasMonitoring |-> FALSE,
              fetchOk |-> TRUE, intervalBefore |-> NoTimer,
              registered |-> [mcp |-> {}, sse |-> {}, handlers |-> {}],
              prevKnown |-> <<>>, fetchesBefore |-> 0,
              timersBefore |-> {}, everStarted |-> FALSE, startedBy |-> NoSession,
              failedKnown |-> <<>>, afterFail |-> <<>>,
              cycle |-> NoCycle, closing |-> NoCycle, ownTimeout |-> <<>>,
    successes |-> <<>> ]

\* a request reaches app.use(path, authenticate); the history keeps the
\* response to the request before it
Authenticate(request) ==
  /\ authRequest' = request
  /\ authResponse' = authenticate(authConfig, request)
  /\ last' = [last EXCEPT !.op = "authenticate", !.result = authResponse]
  /\ UNCHANGED <<authConfig, http, timeoutHandles, emitted, cleanupCalls, delivery, exited,
                 child>>
  /\ UNCHANGED sessionVars
  /\ UNCHANGED monitorVars

NextAuth == \E request \in AuthRequests : Authenticate(request)

SpecAuth == InitAuth /\ [][NextAuth]_vars

(***************************************************************************)
(* HTTP routes (src/app/streamable-http.ts)                                *)
(*                                                                         *)
(* A request carries its credentials, a session identifier (<<>> when the  *)
(* mcp-session-id header or the sessionId parameter is missing) and a      *)
(* message: an initialize request, a tool call, or the DELETE method.      *)
(***************************************************************************)

BlankMessage ==
  [kind |-> "initialize", timeout |-> <<>>, packageName |-> <<>>, limit |-> <<>>,
   fetched |-> FetchFailed]

\* the messages of a client: initialize, DELETE, and calls of the three
\* tools with the given arguments and snapshot-source answers
Messages(timeouts, packages, limits, answers) ==
  { [BlankMessage EXCEPT !.kind = k] : k \in {"initialize", "delete", "stop"} }
    \cup { [BlankMessage EXCEPT !.kind = "wait", !.timeout = t] : t \in timeouts }
    \cup { [BlankMessage EXCEPT !.kind = "get", !.packageName = p, !.limit = l,
                                !.fetched = f] :
             p \in packages, l \in limits, f \in answers }

\* the session identifiers a request can bear: none, or one randomUUID()
\* can generate, registered or not
RequestIds == { <<>> } \cup { <<s>> : s \in SessionIds }

Http(path, sessionId, message, status) ==
  [path |-> path, sessionId |-> sessionId,
   initialize |-> (message.kind = "initialize"), status |-> status]

\* the response is sent without a session or a tool being touched
Refused(path, sessionId, message, status) ==
  /\ http' = Http(path, sessionId, message, status)
  /\ emitted' = <<>>
  /\ delivery' = NoDelivery
  /\ UNCHANGED exited
  /\ cleanupCalls' = 0
  /\ last' = Record("refused", "none", NoSession, <<>>, NoResult)
  /\ UNCHANGED <<sessionVars, timeoutHandles>>
  /\ UNCHANGED monitorVars

\* a gate that leaves /messages open
GatedPathsButMessages == {"/mcp", "/sse"}

\* app.use('/mcp', authenticate); app.use('/sse', ...); app.use('/messages', ...)
GatedPaths == {"/mcp", "/sse", "/messages"}

\* the middleware in front of a route
Gate(path, request) ==
  IF path \in GatedPaths THEN authenticate(authConfig, request) ELSE Admit

\* the McpServer dispatches a tools/call request to the tool's handler
callTool(s, message) ==
  CASE message.kind = "wait" -> ToolWaitForNotification(s, message.timeout)
    [] message.kind = "stop" -> ToolStopWaitingForNotification(s)
    [] message.kind = "get" ->
         ToolGetCurrentNotifications(s, message.packageName, message.limit,
                                     message.fetched)

\* a /mcp route that takes any session identifier at its word
mcpRouteTrusting(sessionId, message) ==
  IF NameGiven(sessionId) THEN "reuse"
  ELSE IF message.kind = "initialize" THEN "new"
  ELSE "invalid"

\* the three branches of app.all('/mcp')
mcpRoute(sessionId, message) ==
  IF NameGiven(sessionId) /\ sessionId[1] \in transports THEN "reuse"
  ELSE IF ~NameGiven(sessionId) /\ message.kind = "initialize" THEN "new"
  ELSE "invalid"

\* transport.handleRequest of a registered Streamable HTTP transport: DELETE
\* closes it, a second initialize is answered 400, a tool call is dispatched
handleRequest(s, message) ==
  IF message.kind = "delete"
    THEN CloseMcp(s) /\ http' = Http("/mcp", <<s>>, message, 200)
  ELSE IF message.kind = "initialize"
    THEN Refused("/mcp", <<s>>, message, 400)
  ELSE callTool(s, message) /\ http' = Http("/mcp", <<s>>, message, 200)

\* app.all('/mcp') behind its middleware
McpRequest(request, sessionId, message) ==
  LET response == Gate("/mcp", request)
      route == mcpRoute(sessionId, message)
  IN  /\ ~exited
      /\ authRequest' = request
      /\ authResponse' = response
      /\ UNCHANGED <<authConfig, child>>
      /\ IF response.status # 200
           THEN Refused("/mcp", sessionId, message, response.status)
         ELSE IF route = "reuse" THEN handleRequest(sessionId[1], message)
         ELSE IF route = "new"
           THEN /\ \E s \in SessionIds : InitializeMcp(s)
                /\ http' = Http("/mcp", sessionId, message, 200)
         ELSE Refused("/mcp", sessionId, message, 400)

\* app.all('/sse') behind its middleware
SseRequest(request) ==
  LET response == Gate("/sse", request)
  IN  /\ ~exited
      /\ authRequest' = request
      /\ authResponse' = response
      /\ UNCHANGED <<authConfig, child>>
      /\ IF response.status # 200
           THEN Refused("/sse", <<>>, [BlankMessage EXCEPT !.kind = "open"],
                        response.status)
           ELSE /\ \E s \in SessionIds : OpenSse(s)
                /\ http' = Http("/sse", <<>>, [BlankMessage EXCEPT !.kind = "open"], 200)

\* if (!sessionId || !oldTransports[sessionId]) of app.post('/messages')
messagesRoute(sessionId) ==
  IF ~NameGiven(sessionId) \/ sessionId[1] \notin oldTransports THEN "invalid"
  ELSE "reuse"

\* transport.handlePostMessage of a registered SSE transport: the message is
\* accepted, a tool call is dispatched, the initialize handshake touches
\* neither the monitor nor the tables
handlePostMessage(s, message) ==
  /\ http' = Http("/messages", <<s>>, message, 202)
  /\ IF message.kind = "initialize"
       THEN /\ emitted' = <<>>
            /\ delivery' = NoDelivery
            /\ UNCHANGED exited
            /\ cleanupCalls' = 0
            /\ last' = Record("handshake", "none", s, <<>>, NoResult)
            /\ UNCHANGED <<sessionVars, timeoutHandles>>
            /\ UNCHANGED monitorVars
       ELSE callTool(s, message)

\* app.post('/messages') behind its middleware
MessagesRequest(request, sessionId, message) ==
  LET response == Gate("/messages", request)
  IN  /\ ~exited
      /\ message.kind # "delete"
      /\ authRequest' = request
      /\ authResponse' = response
      /\ UNCHANGED <<authConfig, child>>
      /\ IF response.status # 200
           THEN Refused("/messages", sessionId, message, response.status)
         ELSE IF messagesRoute(sessionId) = "reuse"
           THEN handlePostMessage(sessionId[1], message)
         ELSE Refused("/messages", sessionId, message, 400)

\* a client that follows the protocol: initialize without a session
\* identifier, everything else under the identifier of a registered session
FollowsProtocolMcp(sessionId, message) ==
  \/ mcpRoute(sessionId, message) = "new"
  \/ mcpRoute(sessionId, message) = "reuse" /\ message.kind # "initialize"
FollowsProtocolMessages(sessionId, message) ==
  messagesRoute(sessionId) = "reuse" /\ message.kind # "initialize"

\* a waitForNotification that would start a poll chain beyond
\* MaxSessionChains is left out of the specifications with sessions
WithinSessionChains(message) ==
  message.kind = "wait" => (isMonitoring \/ Chains < MaxSessionChains)

\* requests of such a client to a server without credentials
ClientMcpRequest(sessionId, message) ==
  /\ WithinSessionChains(message)
  /\ FollowsProtocolMcp(sessionId, message)
  /\ McpRequest(NoRequest, sessionId, message)
ClientMessagesRequest(sessionId, message) ==
  /\ WithinSessionChains(message)
  /\ FollowsProtocolMessages(sessionId, message)
  /\ MessagesRequest(NoRequest, sessionId, message)

\* the messages that start, stop, close and read without arguments
SessionMessages ==
  Messages(Timeouts, { <<>> }, { <<>> },
           { FetchFailed } \cup { Fetched(notifications) : notifications \in SessionSnapshots })

\* the HTTP server without credentials, with its sessions, tools, timers and
\* polls, and clients that follow the protocol
Next ==
  \/ \E sessionId \in RequestIds, message \in SessionMessages :
       ClientMcpRequest(sessionId, message)
  \/ \E sessionId \in RequestIds, message \in SessionMessages :
       ClientMessagesRequest(sessionId, message)
  \/ SseRequest(NoRequest)
  \/ \E s \in SessionIds : CloseSse(s)
  \/ TimeoutFires
  \/ \E t \in TimerIds : TimerFires(t)
  \/ \E currentNotifications \in SessionSnapshots, broken \in BrokenChoices :
       PollSucceedsForwarded(currentNotifications, broken)
  \/ \E broken \in BrokenChoices : PollFailsForwarded(broken)

Spec == Init /\ [][Next]_vars

\* the arguments of getCurrentNotifications: packageName not supplied, empty
\* or the package of k1; limit not supplied or within the schema's range cut at MaxLimit
PackageArgs == { <<>>, <<"">>, <<PackageOf("k1")>> }
LimitArgs == { <<>> } \cup { <<n>> : n \in 1..MaxLimit }
Answers == { FetchFailed } \cup { Fetched(notifications) : notifications \in Snapshots }
ToolMessages == Messages({}, PackageArgs, LimitArgs, Answers)

\* sessions of Streamable HTTP clients that read the current notifications
NextTools ==
  \E sessionId \in RequestIds, message \in ToolMessages :
    ClientMcpRequest(sessionId, message)

SpecTools == Init /\ [][NextTools]_vars

\* the credentials of the guarded server: the token "t", with or without
\* the user "u" and the password "p"
GateConfigs ==
  { config \in AuthConfigs :
      /\ config.bearerToken = << <<116>> >>
      /\ config.basicPass # << <<112, Colon, 113>> >>
      /\ (config.basicUser = <<>>) = (config.basicPass = <<>>) }

\* the credentials of its clients: none, the right and a wrong bearer token,
\* Basic "u" with the password "p:q"
GateRequests ==
  { [authorization |-> h, queryToken |-> <<>>] :
      h \in { <<>>, BearerHeader(<<116>>), BearerHeader(<<119>>),
              BasicHeader(<<117>>, <<112, Colon, 113>>) } }

GateMessages == Messages({ <<>> }, { <<>> }, { <<>> }, { Fetched(<<>>) })

InitGate == InitAuth /\ authConfig \in GateConfigs

\* requests of any client to the guarded server
GateMcpRequest(request, sessionId, message) ==
  WithinSessionChains(message) /\ McpRequest(request, sessionId, message)
GateMessagesRequest(request, sessionId, message) ==
  WithinSessionChains(message) /\ MessagesRequest(request, sessionId, message)

\* the HTTP server with credentials and clients that send anything
NextGate ==
  \/ \E request \in GateRequests, sessionId \in RequestIds, message \in GateMessages :
       GateMcpRequest(request, sessionId, message)
  \/ \E request \in GateRequests, sessionId \in RequestIds, message \in GateMessages :
       GateMessagesRequest(request, sessionId, message)
  \/ \E request \in GateRequests : SseRequest(request)
  \/ \E s \in SessionIds : CloseSse(s)

SpecGate == InitGate /\ [][NextGate]_vars

(***************************************************************************)
(* Properties of the monitor                                               *)
(***************************************************************************)

\* the new-notification events among the emitted events, as notifications
EmittedNotifications ==
  LET isNewEvent(e) == e.type = "newNotification"
      events == SelectSeq(emitted, isNewEvent)
  IN  [ i \in DOMAIN events |-> events[i].notification ]

\* the records of a snapshot whose key no record of known carries, in order
RECURSIVE AbsentFrom(_, _)
AbsentFrom(snapshot, known) ==
  IF snapshot = <<>> THEN <<>>
  ELSE LET first == Head(snapshot)
           rest == AbsentFrom(Tail(snapshot), known)
       IN  IF \E j \in DOMAIN known : known[j].key = first.key
             THEN rest
             ELSE <<first>> \o rest

\* C1: a poll never emits as new a record whose key is in the snapshot of
\* the preceding successful poll, whatever its other fields are.
C1_KnownKeyNeverReemitted ==
  last.op = "pollOk" =>
    \A i \in DOMAIN EmittedNotifications :
      EmittedNotifications[i].key \notin KeysOf(last.prevKnown)

\* a poll received a known key with changed content and emitted nothing for it
C1_Witness ==
  /\ last.op = "pollOk"
  /\ \E i \in DOMAIN last.fetched, j \in DOMAIN last.prevKnown :
       /\ last.fetched[i].key = last.prevKnown[j].key
       /\ last.fetched[i].content # last.prevKnown[j].content
       /\ \A e \in DOMAIN EmittedNotifications :
            EmittedNotifications[e].key # last.fetched[i].key

\* C2: a successful poll emits exactly the records of the fetched snapshot
\* whose key is absent from lastKnownNotifications, one event each, in source
\* order, and then lastKnownNotifications is the fetched snapshot; [k1]
\* followed by [k1, k2] gives exactly one event, for k2.
C2_EmitsExactlyTheNew ==
  last.op = "pollOk" =>
    /\ emitted = [ i \in DOMAIN AbsentFrom(last.fetched, last.prevKnown) |->
                     NewNotificationEvent(AbsentFrom(last.fetched, last.prevKnown)[i]) ]
    /\ lastKnownNotifications = last.fetched
    /\ ( /\ Len(last.prevKnown) = 1 /\ last.prevKnown[1].key = "k1"
         /\ Len(last.fetched) = 2 /\ last.fetched[1].key = "k1"
         /\ last.fetched[2].key = "k2" )
       => (Len(emitted) = 1 /\ emitted[1].notification = last.fetched[2])

\* the scenario [k1] then [k1, k2], and a poll with two new records
C2_Witness ==
  /\ last.op = "pollOk"
  /\ Len(last.prevKnown) = 1 /\ last.prevKnown[1].key = "k1"
  /\ Len(last.fetched) = 2 /\ last.fetched[1].key = "k1" /\ last.fetched[2].key = "k2"
  /\ Len(emitted) = 1
  /\ lastKnownNotifications = last.fetched

\* C3: a failed poll emits one error event and no newNotification event and
\* leaves lastKnownNotifications unchanged; the next successful poll emits
\* exactly the records whose key was absent from the snapshot known before
\* the failed poll.
C3_FailureKeepsLastKnown ==
  /\ last.op = "pollFail" =>
       /\ emitted = <<ErrorEvent>>
       /\ lastKnownNotifications = last.prevKnown
  /\ (last.op = "pollOk" /\ last.afterFail # <<>>) =>
       EmittedNotifications = AbsentFrom(last.fetched, last.afterFail[1])

\* after a failed poll, a successful poll brought a key known before the
\* failure (not emitted) and a key first seen after it (emitted once)
C3_Witness ==
  /\ last.op = "pollOk"
  /\ last.afterFail # <<>>
  /\ \E i, j \in DOMAIN last.fetched :
       /\ last.fetched[i].key \in KeysOf(last.afterFail[1])
       /\ last.fetched[j].key \notin KeysOf(last.afterFail[1])
       /\ Len(EmittedNotifications) = 1
       /\ EmittedNotifications[1] = last.fetched[j]

\* C4: polling is strictly sequential: never two poll fetches outstanding,
\* never more than one poll chain (outstanding fetch or pending timer) alive.
C4_StrictlySequential ==
  /\ fetches <= 1
  /\ Chains <= 1

\* C5: startMonitoring called while monitoring starts no poll, schedules no
\* timer and leaves lastKnownNotifications alone, and two startMonitoring
\* calls in a row leave exactly one poll chain alive.
C5_StartIdempotent ==
  /\ (last.called = "start" /\ last.wasMonitoring) =>
       /\ isMonitoring
       /\ fetches = last.fetchesBefore
       /\ timers = last.timersBefore
       /\ lastKnownNotifications = last.prevKnown
       /\ emitted = <<>>
  /\ (last.called = "start" /\ last.prevStart) => Chains = 1

\* C6: a stopMonitoring call leaves isMonitoring false and no poll timer
\* pending, invokes the cleanup hook once, and no poll starts until the next
\* startMonitoring.
C6_StopCancelsPolling ==
  /\ last.called = "stop" =>
       /\ ~isMonitoring
       /\ pollInterval = NoTimer
       /\ timers = {}
       /\ cleanupCalls = 1
  /\ (~last.wasMonitoring /\ last.called # "start") => fetches <= last.fetchesBefore

(***************************************************************************)
(* Properties of the tool surface and sessions                             *)
(***************************************************************************)

\* C7: stopMonitoring while not monitoring does not invoke the cleanup hook
\* again for a monitoring session that was already stopped, and the
\* stopWaitingForNotification tool returns its normal confirmation.
C7_IdleStopNoSecondCleanup ==
  /\ (last.called = "stop" /\ ~last.wasMonitoring /\ last.everStarted) => cleanupCalls = 0
  /\ last.op = "toolStop" =>
       (~last.result.isError /\ last.result.text = "Stopped monitoring")

\* C8: closing a session never stops monitoring and removes nothing but the
\* closed session from the session tables.
C8_CloseKeepsMonitoring ==
  last.op \in {"closeMcp", "closeSse"} =>
    /\ last.wasMonitoring => isMonitoring
    /\ last.session \notin ActiveSessions

\* C9: one monitor serves all sessions: after waitForNotification by any
\* session monitoring is active, a second session's call starts no poll of
\* its own, and stopWaitingForNotification by any session stops monitoring
\* whichever session started it.
C9_SharedMonitor ==
  /\ last.op = "toolWait" =>
       /\ isMonitoring
       /\ last.wasMonitoring => fetches = last.fetchesBefore
  /\ last.op = "toolStop" =>
       /\ ~isMonitoring
       /\ pollInterval = NoTimer

\* a session stopped the monitoring that another, still attached, session
\* had started
C9_Witness ==
  /\ last.op = "toolStop"
  /\ last.wasMonitoring
  /\ last.startedBy # last.session
  /\ last.startedBy \in ActiveSessions
  /\ ~isMonitoring

(***************************************************************************)
(* Properties of the authentication middleware                             *)
(***************************************************************************)

Admitted == authResponse.status = 200
BothConfigured ==
  /\ Truthy(authConfig.bearerToken)
  /\ Truthy(authConfig.basicUser)
  /\ Truthy(authConfig.basicPass)
ValidBearerHeader ==
  Truthy(authConfig.bearerToken)
    /\ authRequest.authorization = BearerHeader(authConfig.bearerToken[1])
ValidQueryToken ==
  Truthy(authConfig.bearerToken) /\ authRequest.queryToken = authConfig.bearerToken
ValidBasicHeader ==
  /\ Truthy(authConfig.basicUser)
  /\ Truthy(authConfig.basicPass)
  /\ authRequest.authorization = BasicHeader(authConfig.basicUser[1], authConfig.basicPass[1])

\* C10: with both a bearer token and basic credentials configured, a request
\* carrying one valid credential (bearer header, query token or Basic
\* header) is admitted, whatever else it carries.
C10_AnyMechanismAdmits ==
  (last.op = "authenticate" /\ BothConfigured
     /\ (ValidBearerHeader \/ ValidQueryToken \/ ValidBasicHeader))
    => Admitted

\* the request carries no credential but its Authorization header
HeaderOnly == ~Truthy(authRequest.queryToken)
\* the request carries no credential but its token query parameter
QueryOnly == authRequest.authorization = <<>>
BearerConfigured == Truthy(authConfig.bearerToken)
BearerHeaderOf(tokens) ==
  \E t \in tokens : authRequest.authorization = BearerHeader(t)

\* C11: with a bearer token T configured, a request whose credential is the
\* header 'Bearer T' is admitted, one whose credential is 'Bearer' with
\* anything other than T is rejected with status 401, and a request with no
\* Authorization header and the query parameter token=T is admitted.
C11_BearerToken ==
  (last.op = "authenticate" /\ BearerConfigured)
    => /\ (HeaderOnly /\ ValidBearerHeader) => Admitted
       /\ (HeaderOnly
             /\ BearerHeaderOf((Tokens \cup {<<>>}) \ {authConfig.bearerToken[1]}))
            => authResponse.status = 401
       /\ (QueryOnly /\ ValidQueryToken) => Admitted

\* a wrong bearer token was presented in the header and rejected
C11_Witness ==
  /\ last.op = "authenticate"
  /\ BearerConfigured
  /\ HeaderOnly
  /\ BearerHeaderOf(Tokens \ {authConfig.bearerToken[1]})
  /\ authResponse.status = 401

BasicConfigured ==
  Truthy(authConfig.basicUser) /\ Truthy(authConfig.basicPass)
\* the header is the standard Basic encoding of a user and a password that
\* are not both the configured ones
OtherBasicHeader ==
  \E u \in Users, p \in Passwords :
    /\ <<u, p>> # <<authConfig.basicUser[1], authConfig.basicPass[1]>>
    /\ authRequest.authorization = BasicHeader(u, p)

\* C13: with a user U and a password P configured (P may contain ':'), a
\* request whose credential is the Basic encoding of exactly U and P is
\* admitted, and one encoding any other user or password is rejected.
C13_BasicCredentials ==
  (last.op = "authenticate" /\ BasicConfigured /\ HeaderOnly)
    => /\ ValidBasicHeader => Admitted
       /\ OtherBasicHeader => authResponse.status = 401

NotSet(optional) == optional = <<>> \/ optional = << <<>> >>

C15_RejectionsAlike ==
  (last.op = "authenticate"
     /\ authResponse.status = 401 /\ last.result.status = 401)
    => authResponse.error = last.result.error

(***************************************************************************)
(* Properties of the HTTP routes                                           *)
(***************************************************************************)

\* the last step was a request to /mcp, /sse or /messages
RequestStep ==
  last.op \in {"refused", "initMcp", "openSse", "closeMcp", "handshake",
               "toolWait", "toolStop", "toolGet"}
AnyCredentialConfigured == BearerConfigured \/ BasicConfigured
\* the request carries no credential that is a configured one
NoValidCredential == ~(ValidBearerHeader \/ ValidQueryToken \/ ValidBasicHeader)
\* the step registered no session and no handler, dispatched no tool and
\* left the monitor alone
NothingTouched ==
  /\ last.op = "refused"
  /\ last.called = "none"
  /\ transports = last.registered.mcp
  /\ oldTransports = last.registered.sse
  /\ sseHandlers = last.registered.handlers
  /\ isMonitoring = last.wasMonitoring
  /\ fetches = last.fetchesBefore
  /\ timers = last.timersBefore

\* C12: with a credential configured, a request to /mcp, /sse or /messages
\* whose credentials are absent or mismatched is answered 401, and no
\* session, listener or tool call comes of it.
C12_RejectedBeforeSession ==
  (RequestStep /\ AnyCredentialConfigured /\ NoValidCredential)
    => (http.status = 401 /\ NothingTouched)

\* the session identifier of the request is missing or names no transport
\* registered for the route when the request arrived
UnknownSession ==
  \/ ~NameGiven(http.sessionId)
  \/ http.path = "/mcp" /\ http.sessionId[1] \notin last.registered.mcp
  \/ http.path = "/messages" /\ http.sessionId[1] \notin last.registered.sse

Registered == last.registered.mcp \cup last.registered.sse

\* C17: an identifier enters the table of Streamable HTTP sessions only by
\* a successful initialize and that of SSE sessions only by opening /sse, it
\* is one no registered session has, a close removes it, and a request
\* bearing the identifier of a closed session is rejected.
C17_SessionLifecycle ==
  /\ transports \cap oldTransports = {}
  /\ (transports \ last.registered.mcp # {})
       => /\ last.op = "initMcp" /\ http.initialize /\ http.status = 200
          /\ transports \ last.registered.mcp = {last.session}
  /\ (oldTransports \ last.registered.sse # {})
       => /\ last.op = "openSse" /\ http.path = "/sse" /\ http.status = 200
          /\ oldTransports \ last.registered.sse = {last.session}
  /\ last.op \in {"initMcp", "openSse"} => last.session \notin Registered
  /\ last.op \in {"closeMcp", "closeSse"} => last.session \notin ActiveSessions
  /\ (RequestStep /\ NameGiven(http.sessionId)
        /\ http.sessionId[1] \in issued \ Registered
        /\ last.op \notin {"initMcp", "openSse"})
       => http.status \in {400, 401}

\* with another session active, a request bearing the identifier of a
\* closed session was rejected
C17_Witness ==
  /\ last.op = "refused"
  /\ http.status = 400
  /\ NameGiven(http.sessionId)
  /\ http.sessionId[1] \in issued \ ActiveSessions
  /\ ActiveSessions # {}

(***************************************************************************)
(* Properties of the event forwarding                                      *)
(***************************************************************************)

PollStep == last.op \in {"pollOk", "pollFail"}

\* C18: every newNotification event and every error event the monitor
\* emits is pushed to every session attached at that moment, of either
\* transport style, when no channel fails.
C18_BroadcastToAll ==
  (PollStep /\ delivery.broken = {})
    => \A i \in DOMAIN emitted : \A s \in ActiveSessions :
         delivery.pushes[i][s] >= 1

\* C19: when the push of an event to one session fails, every other
\* attached session still gets the new-notification events, the process
\* lives and the next poll is scheduled, and the records of the poll are
\* known afterwards.
C19_PushFailureIsolated ==
  (PollStep /\ emitted # <<>> /\ delivery.broken # {})
    => /\ \A i \in DOMAIN emitted : \A s \in ActiveSessions \ delivery.broken :
            emitted[i].type = "newNotification" => delivery.pushes[i][s] >= 1
       /\ ~exited
       /\ isMonitoring => pollInterval \in timers
       /\ \A j \in DOMAIN last.fetched :
            last.fetched[j].key \in KeysOf(lastKnownNotifications)

(***************************************************************************)
(* Properties of the tools                                                 *)
(***************************************************************************)

\* the records of the snapshot the tool read whose package is the supplied
\* one, in the order of the snapshot
MatchingPackage ==
  LET matches(n) == n.packageName = last.result.packageName[1]
  IN  SelectSeq(last.fetched, matches)

Filtered ==
  IF NameGiven(last.result.packageName) THEN MatchingPackage ELSE last.fetched

\* the first records of a sequence, at most n of them
FirstOf(sequence, n) ==
  SubSeq(sequence, 1, IF n < Len(sequence) THEN n ELSE Len(sequence))

\* C21: with a limit L the tool returns the first min(L, n) records, in
\* snapshot order, of the filtered sequence of length n, never of the raw
\* snapshot, and counts them.
C21_FilterThenLimit ==
  (last.op = "toolGet" /\ ~last.result.isError /\ last.result.limit # <<>>)
    => /\ last.result.notifications = FirstOf(Filtered, last.result.limit[1])
       /\ last.result.count = Len(FirstOf(Filtered, last.result.limit[1]))

\* with limit 1 and a package name, a snapshot whose first record is of
\* another package gave the record of the package that follows it
C21_Witness ==
  /\ last.op = "toolGet"
  /\ ~last.result.isError
  /\ last.result.limit = <<1>>
  /\ NameGiven(last.result.packageName)
  /\ Len(last.fetched) = 2
  /\ last.fetched[1].packageName # last.result.packageName[1]
  /\ last.result.notifications = << last.fetched[2] >>

\* C22: when the snapshot source fails during a getCurrentNotifications
\* call, the call is answered on the normal response path with a failed
\* result (isError, "Failed to get current notifications"), which no
\* successful call returns, also not one that found no notification, and
\* isMonitoring and lastKnownNotifications stay as they were.
C22_FailureIsFailedResult ==
  last.op = "toolGet"
    => /\ http.status \in {200, 202}
       /\ last.result.isError = ~last.fetchOk
       /\ (last.result.text = "Failed to get current notifications") = ~last.fetchOk
       /\ (last.result.text = "Found") = last.fetchOk
       /\ isMonitoring = last.wasMonitoring
       /\ lastKnownNotifications = last.prevKnown

\* the snapshot source failed a tool call made while the monitor was
\* polling and knew a notification
C22_Witness ==
  /\ last.op = "toolGet"
  /\ ~last.fetchOk
  /\ last.result.isError
  /\ isMonitoring
  /\ lastKnownNotifications # <<>>

(***************************************************************************)
(* Timed monitoring (src/app/streamable-http.ts, notification-monitor.ts)  *)
(***************************************************************************)

\* the messages that open and close a session and start and stop the monitor
TimedMessages == Messages(Timeouts, {}, {}, {})

\* a request of a client that follows the protocol, where calls may start
\* up to MaxChains poll chains
TimedMcpRequest(sessionId, message) ==
  FollowsProtocolMcp(sessionId, message) /\ McpRequest(NoRequest, sessionId, message)

\* Streamable HTTP sessions that start monitoring with and without a
\* timeout and stop it, the deferred stops, and polls whose pushes arrive
NextTimed ==
  \/ \E sessionId \in RequestIds, message \in TimedMessages :
       TimedMcpRequest(sessionId, message)
  \/ TimeoutFires
  \/ \E t \in TimerIds : TimerFires(t)
  \/ \E currentNotifications \in SessionSnapshots :
       PollSucceedsForwarded(currentNotifications, {})
  \/ PollFailsForwarded({})

SpecTimed == InitTimed /\ [][NextTimed]_vars

\* C23: when the deferred stop of a waitForNotification timeout has fired,
\* without any stopWaitingForNotification call needed, the monitor is not
\* monitoring and no poll timer is pending.
C23_TimeoutStopsMonitoring ==
  last.op = "timeout"
    => /\ ~isMonitoring
       /\ pollInterval = NoTimer
       /\ timers = {}

\* the deferred stop leaves the monitor stopped with its own handle cleared
TimeoutStopsOwnTimer ==
  last.op = "timeout" => (~isMonitoring /\ pollInterval = NoTimer)

\* C24: the confirmation of waitForNotification announces an automatic stop
\* exactly when the call scheduled a deferred stop.
C24_AnnouncedIffScheduled ==
  last.op = "toolWait"
    => (last.result.announcesStop = last.result.scheduledStop)

\* C25: waitForNotification returns its confirmation while the fetch of the
\* poll it started is still outstanding and before any event; when that
\* fetch fails, the failure is an error event.
C25_ReturnsBeforeFirstFetch ==
  /\ last.op = "toolWait"
       => /\ ~last.result.isError
          /\ last.result.text = "Started monitoring"
          /\ http.status = 200
          /\ emitted = <<>>
          /\ ~last.wasMonitoring => fetches = last.fetchesBefore + 1
  /\ (last.op = "pollFail" /\ last.prevStart) => emitted = <<ErrorEvent>>

\* the first fetch after a waitForNotification call has failed
C25_Witness ==
  /\ last.op = "pollFail"
  /\ last.prevStart
  /\ ~last.wasMonitoring \/ last.fetchesBefore = 1
  /\ lastKnownNotifications = <<>>
  /\ emitted = <<ErrorEvent>>
  /\ http.status = 200

\* the step that led here was the completion of a poll
PollCompleted == last.op \in {"pollOk", "pollFail"}

\* the step that led here began a poll's fetch
PollStarted == fetches > last.fetchesBefore

\* what the tail of a completed poll did: one new timer, held by
\* pollInterval, when monitoring, and nothing otherwise
RescheduledOnce ==
  IF isMonitoring
    THEN /\ pollInterval # NoTimer
         /\ pollInterval \notin last.timersBefore
         /\ timers = last.timersBefore \cup {pollInterval}
    ELSE timers = last.timersBefore

C27_EventsOnlyWhileMonitoring ==
  (emitted # <<>> \/ lastKnownNotifications # last.prevKnown)
    => (last.wasMonitoring /\ isMonitoring)

\* C28: a getCurrentNotifications call, through the monitor or the tool,
\* answered or failed, while monitoring or not, leaves
\* lastKnownNotifications, isMonitoring, the poll timers and the outstanding
\* fetches as they were and emits no event.
C28_ReadOnlyQuery ==
  last.op \in {"getCurrent", "toolGet"}
    => /\ lastKnownNotifications = last.prevKnown
       /\ isMonitoring = last.wasMonitoring
       /\ pollInterval = last.intervalBefore
       /\ timers = last.timersBefore
       /\ fetches = last.fetchesBefore
       /\ emitted = <<>>
       /\ delivery = NoDelivery

\* the tool read a snapshot that differs from the last known one while a
\* poll timer was pending
C28_Witness ==
  /\ last.op = "toolGet"
  /\ last.fetchOk
  /\ last.fetched # lastKnownNotifications
  /\ isMonitoring
  /\ pollInterval \in timers

\* C29: the first successful poll after stopMonitoring() followed by
\* startMonitoring() reports as new only records whose keys were absent
\* from the snapshot known when the monitor was stopped.
C29_NoFloodAfterRestart ==
  (last.op = "pollOk" /\ last.closing.restarted)
    => \A i \in DOMAIN emitted :
         \A j \in DOMAIN last.closing.known[1] :
           emitted[i].notification.key # last.closing.known[1][j].key

\* C30: a poll that fetches an empty snapshot emits nothing, no error
\* included, and leaves lastKnownNotifications empty; a successful poll that
\* started from an empty lastKnownNotifications reports every record of its
\* snapshot as new.
C30_EmptySnapshot ==
  /\ (last.op = "pollOk" /\ last.fetched = <<>>)
       => (emitted = <<>> /\ lastKnownNotifications = <<>>)
  /\ (last.op = "pollOk" /\ last.prevKnown = <<>>)
       => emitted = EmitAll(last.fetched)

\* an empty snapshot has replaced a known one
C30_Witness ==
  /\ last.op = "pollOk"
  /\ last.fetched = <<>>
  /\ last.prevKnown # <<>>
  /\ lastKnownNotifications = <<>>
  /\ emitted = <<>>

(***************************************************************************)
(* Snapshot source (src/app/termux-notification-monitor.ts)                *)
(*                                                                         *)
(* The output of the command is a sequence of chunks, each a lexeme of the *)
(* JSON text: whitespace, null, the brackets of an array, or an object.    *)
(* The separators between the elements of an array belong to the lexemes.  *)
(* Objects carry no key the schema does not name.                          *)
(***************************************************************************)

MaxChunks == 4

Whitespace == "ws"
Fields == {"id", "tag", "key", "group", "packageName", "title", "content", "when"}

\* NotificationSchema: the type of every field of a notification record
NotificationSchema == [f \in Fields |-> IF f = "id" THEN "number" ELSE "string"]

\* the values JSON.parse can produce from the lexemes
JsonNull == [type |-> "null", types |-> <<>>, record |-> <<>>, items |-> <<>>]
JsonObject(types, record) ==
  [type |-> "object", types |-> types, record |-> <<record>>, items |-> <<>>]
JsonArray(items) == [type |-> "array", types |-> <<>>, record |-> <<>>, items |-> items]

\* the record of key k as the command prints it
Printed(k) == CHOOSE n \in Notifications : n.key = k /\ n.content = "a"

\* the object lexemes: the records of k1 and k2, and a record of k1 whose
\* `when` is a number
ObjectOf(lexeme) ==
  IF lexeme = "k1" THEN JsonObject(NotificationSchema, Printed("k1"))
  ELSE IF lexeme = "k2" THEN JsonObject(NotificationSchema, Printed("k2"))
  ELSE JsonObject([NotificationSchema EXCEPT !["when"] = "number"], Printed("k1"))

ObjectLexemes == {"k1", "k2", "bad"}
Chunks == {Whitespace, "null", "[", "]"} \cup ObjectLexemes

\* Buffer.concat(stdoutChunks).toString('utf8')
Concat(chunks) == chunks

\* String.prototype.trim(): white space dropped at both ends
RECURSIVE TrimStart(_)
TrimStart(text) ==
  IF text # <<>> /\ Head(text) = Whitespace THEN TrimStart(Tail(text)) ELSE text
RECURSIVE TrimEnd(_)
TrimEnd(text) ==
  IF text # <<>> /\ text[Len(text)] = Whitespace
    THEN TrimEnd(SubSeq(text, 1, Len(text) - 1))
    ELSE text
Trim(text) == TrimEnd(TrimStart(text))

\* the position of the first lexeme of text at or after i that is not white space
RECURSIVE SkipWhitespace(_, _)
SkipWhitespace(text, i) ==
  IF i <= Len(text) /\ text[i] = Whitespace THEN SkipWhitespace(text, i + 1) ELSE i

SyntaxError == [ok |-> FALSE, value |-> JsonNull, next |-> 0]

\* JSON.parse reading one value of text from position i: the value and the
\* position after it, or a SyntaxError
RECURSIVE ParseValue(_, _)
RECURSIVE ParseElements(_, _, _)
ParseValue(text, i) ==
  LET at == SkipWhitespace(text, i)
  IN  IF at > Len(text) THEN SyntaxError
      ELSE IF text[at] = "null" THEN [ok |-> TRUE, value |-> JsonNull, next |-> at + 1]
      ELSE IF text[at] \in ObjectLexemes
        THEN [ok |-> TRUE, value |-> ObjectOf(text[at]), next |-> at + 1]
      ELSE IF text[at] = "[" THEN ParseElements(text, at + 1, <<>>)
      ELSE SyntaxError
ParseElements(text, i, items) ==
  LET at == SkipWhitespace(text, i)
  IN  IF at > Len(text) THEN SyntaxError
      ELSE IF text[at] = "]" THEN [ok |-> TRUE, value |-> JsonArray(items), next |-> at + 1]
      ELSE LET element == ParseValue(text, at)
           IN  IF element.ok
                 THEN ParseElements(text, element.next, Append(items, element.value))
                 ELSE SyntaxError

\* JSON.parse(text): one value and nothing but white space after it
JsonParse(text) ==
  LET parsed == ParseValue(text, 1)
  IN  IF parsed.ok /\ SkipWhitespace(text, parsed.next) > Len(text) THEN parsed
      ELSE SyntaxError

\* NotificationSchema.parse(notif) does not throw
Validates(notif) ==
  notif.type = "object" /\ \A f \in Fields : notif.types[f] = NotificationSchema[f]

\* the notification records of validated entries
RECURSIVE RecordsOf(_)
RecordsOf(entries) ==
  IF entries = <<>> THEN <<>>
  ELSE <<Head(entries).record[1]>> \o RecordsOf(Tail(entries))

\* resolve(value) and reject(new Error(reason)) as calls on the promise
resolve(value) == [status |-> "resolved", value |-> value, reason |-> "none"]
reject(reason) == [status |-> "rejected", value |-> <<>>, reason |-> reason]

\* a promise takes the first resolve or reject and ignores the later ones
Settle(promise, call) == IF promise.status = "pending" THEN call ELSE promise

\* !notifications
Falsy(value) == value.type = "null"

\* a fallback that gives up the whole batch when one entry is invalid
filterNone(notificationArray) == <<>>

\* notificationArray.filter(notif => NotificationSchema.parse(notif) succeeds)
filterValid(notificationArray) == SelectSeq(notificationArray, Validates)

\* the validation of a parsed output: z.array(NotificationSchema).parse on
\* the whole array, and the filter when it throws
validated(notifications) ==
  LET notificationArray == IF notifications.type = "array" THEN notifications.items
                           ELSE <<notifications>>
  IN  IF \A i \in DOMAIN notificationArray : Validates(notificationArray[i])
        THEN resolve(RecordsOf(notificationArray))
        ELSE resolve(RecordsOf(filterValid(notificationArray)))

\* a close listener that parses an output without text
closedParsingEmpty(code, chunks) ==
  LET trimmedOutput == Trim(Concat(chunks))
      parsed == JsonParse(trimmedOutput)
  IN  IF code # 0 THEN reject("notification list command failed")
      ELSE IF ~parsed.ok THEN reject("Failed to parse notification data")
      ELSE IF Falsy(parsed.value) THEN resolve(<<>>)
      ELSE validated(parsed.value)

\* process.on('close', (code) => ...): the call it makes on the promise
closed(code, chunks) ==
  LET trimmedOutput == Trim(Concat(chunks))
      parsed == JsonParse(trimmedOutput)
  IN  IF code # 0 THEN reject("notification list command failed")
      ELSE IF trimmedOutput = <<>> THEN resolve(<<>>)
      ELSE IF ~parsed.ok THEN reject("Failed to parse notification data")
      ELSE IF Falsy(parsed.value) THEN resolve(<<>>)
      ELSE validated(parsed.value)

\* process.on('error', (error) => ...): the call it makes on the promise
errored == reject("Failed to execute notification list command")

\* getCurrentNotifications() is called: the command is spawned
Spawn ==
  /\ child.stage = "none"
  /\ child' = [NoChild EXCEPT !.stage = "running"]
  /\ UNCHANGED <<monitorVars, sessionVars, authVars, timeoutHandles, http>>
  /\ UNCHANGED <<emitted, cleanupCalls, delivery, exited, last>>

\* process.stdout.on('data'): a chunk of output arrives
StdoutData(data) ==
  /\ child.stage = "running"
  /\ ~child.errored
  /\ Len(child.stdoutChunks) < MaxChunks
  /\ child' = [child EXCEPT !.stdoutChunks = Append(@, data)]
  /\ UNCHANGED <<monitorVars, sessionVars, authVars, timeoutHandles, http>>
  /\ UNCHANGED <<emitted, cleanupCalls, delivery, exited, last>>

\* the command could not be spawned: the 'error' event
ProcessError ==
  /\ child.stage = "running"
  /\ ~child.errored
  /\ child.stdoutChunks = <<>>
  /\ child' = [child EXCEPT !.errored = TRUE,
                            !.promise = Settle(@, errored),
                            !.settles = @ + 1]
  /\ UNCHANGED <<monitorVars, sessionVars, authVars, timeoutHandles, http>>
  /\ UNCHANGED <<emitted, cleanupCalls, delivery, exited, last>>

\* the exit codes of the command; a failed spawn closes with the errno
ExitCodes == {0, 1}
SpawnFailureCode == 0 - 2

\* the 'close' event: after the exit of the command, or after a failed spawn
ProcessClose(code) ==
  /\ child.stage = "running"
  /\ child.errored = (code = SpawnFailureCode)
  /\ child' = [child EXCEPT !.stage = "closed",
                            !.code = <<code>>,
                            !.promise = Settle(@, closed(code, child.stdoutChunks)),
                            !.settles = @ + 1]
  /\ UNCHANGED <<monitorVars, sessionVars, authVars, timeoutHandles, http>>
  /\ UNCHANGED <<emitted, cleanupCalls, delivery, exited, last>>

\* one call of getCurrentNotifications() and the events of its child process
NextSource ==
  \/ Spawn
  \/ \E data \in Chunks : StdoutData(data)
  \/ ProcessError
  \/ \E code \in ExitCodes \cup {SpawnFailureCode} : ProcessClose(code)

SpecSource == Init /\ [][NextSource]_vars

(***************************************************************************)
(* Properties of the snapshot source                                       *)
(***************************************************************************)

\* the command exited with code 0
ExitedZero == child.stage = "closed" /\ child.code = <<0>>

\* what JSON.parse makes of the trimmed output
Output == JsonParse(Trim(child.stdoutChunks))

\* the entries of a parsed JSON sequence
Entries == Output.value.items

\* C31: when the command exits 0 with a JSON sequence, the call resolves
\* with exactly the entries that validate one by one, in their order: all
\* of them when all validate, and the valid rest when some do not.
C31_PartialValidation ==
  (ExitedZero /\ Output.ok /\ Output.value.type = "array")
    => /\ child.promise.status = "resolved"
       /\ child.promise.value = RecordsOf(SelectSeq(Entries, Validates))

\* a sequence with a valid and an invalid entry resolved to the valid one
C31_Witness ==
  /\ ExitedZero
  /\ Output.ok
  /\ Output.value.type = "array"
  /\ \E i \in DOMAIN Entries : ~Validates(Entries[i])
  /\ \E i \in DOMAIN Entries : Validates(Entries[i])
  /\ child.promise.status = "resolved"
  /\ child.promise.value # <<>>

\* C32: when the command exits 0 and its output is empty, white space only
\* or the literal null (white space around it or not), the call resolves
\* with the empty sequence.
C32_EmptyOutput ==
  (ExitedZero /\ Trim(child.stdoutChunks) \in { <<>>, <<"null">> })
    => child.promise = resolve(<<>>)

\* an output of white space only was resolved to the empty sequence
C32_Witness ==
  /\ ExitedZero
  /\ child.stdoutChunks # <<>>
  /\ Trim(child.stdoutChunks) = <<>>
  /\ child.promise = resolve(<<>>)

\* a failed spawn, a non-zero exit code and unparseable output each reject
\* the promise with their own reason, and the first call on the promise
\* stands when both events fire
SourceFailureRejects ==
  /\ child.errored => child.promise = reject("Failed to execute notification list command")
  /\ (child.stage = "closed" /\ ~child.errored /\ child.code # <<0>>)
       => child.promise = reject("notification list command failed")
  /\ (ExitedZero /\ Trim(child.stdoutChunks) # <<>> /\ ~Output.ok)
       => child.promise = reject("Failed to parse notification data")
  /\ child.settles > 0 => child.promise.status # "pending"

\* C33: a failure of the snapshot source in the poll loop becomes an error
\* event, the process keeps running and, while monitoring, the next poll is
\* scheduled.
C33_SourceFailureContained ==
  last.op = "pollFail"
    => /\ emitted = <<ErrorEvent>>
       /\ ~exited
       /\ isMonitoring => pollInterval \in timers

\* C34: when the connection of the MCP server closes, monitoring is stopped:
\* isMonitoring is false, no poll timer is pending and the cleanup hook ran.
C34_CloseStopsMonitoring ==
  last.op \in {"closeMcp", "closeSse"}
    => /\ ~isMonitoring
       /\ pollInterval = NoTimer
       /\ timers = {}
       /\ cleanupCalls = 1

\* the close of a connection stops the monitor and clears its own handle
CloseStopsOwnTimer ==
  last.op \in {"closeMcp", "closeSse"}
    => (~isMonitoring /\ pollInterval = NoTimer /\ cleanupCalls = 1)

C36_SseListenerLifecycle ==
  /\ sseHandlers = oldTransports
  /\ \A i \in DOMAIN delivery.pushes :
       \A s \in SessionIds \ ActiveSessions : delivery.pushes[i][s] = 0

\* an event was pushed to an open legacy SSE connection after another
\* session had been closed
C36_Witness ==
  /\ emitted # <<>>
  /\ delivery.pushes # <<>>
  /\ \E s \in issued \ ActiveSessions : delivery.pushes[1][s] = 0
  /\ \E s \in oldTransports : delivery.pushes[1][s] > 0

\* C37: no session gets more than one push message for one emitted event.
C37_AtMostOnePush ==
  \A i \in DOMAIN delivery.pushes :
    \A s \in SessionIds : delivery.pushes[i][s] <= 1

\* C38: the first successful poll of a monitor's lifetime emits one
\* newNotification event for every record of the snapshot it fetched, in
\* the order of the snapshot, and records that snapshot.
C38_FirstPollEmitsAll ==
  (last.op = "pollOk" /\ last.successes = <<"first">>)
    => /\ last.prevKnown = <<>>
       /\ Len(emitted) = Len(last.fetched)
       /\ \A i \in DOMAIN emitted : emitted[i] = NewNotificationEvent(last.fetched[i])
       /\ lastKnownNotifications = last.fetched

\* the first successful poll found two notifications on the device
C38_Witness ==
  /\ last.op = "pollOk"
  /\ last.successes = <<"first">>
  /\ Len(last.fetched) = 2
  /\ last.fetched[1].key # last.fetched[2].key
  /\ Len(emitted) = 2

====
